---- MODULE Spec2Model ----
(***************************************************************************)
(* Model of the Climate controller of pysmartnode                          *)
(* (pysmartnode/components/devices/climate/__init__.py).                   *)
(*                                                                         *)
(* The controller runs as cooperative uasyncio tasks: the control loop     *)
(* (_loop), the network initialisation (_init_network) and the handlers    *)
(* the MQTT client calls when a message arrives on a subscribed topic      *)
(* (changeMode, changeTempLow, changeTempHigh, changeAwayMode, _restore).  *)
(* A task runs without interruption from one await to the next, so every   *)
(* action below is the code of one task between two suspension points.     *)
(*                                                                         *)
(* Temperatures are counted in half degrees Celsius, the resolution of the *)
(* constructor's defaults (16.5, 15.5): 22 degC is 44.                     *)
(*                                                                         *)
(* Beside it, the threshold monitor of the Battery component               *)
(* (pysmartnode/components/sensors/battery.py) and the mode list handling  *)
(* of the Climate constructor, each with a specification of its own.       *)
(***************************************************************************)
EXTENDS Integers, FiniteSets, Sequences, TLC

VARIABLES
    state,          \* self.state, the controller state record
    event,          \* self.event, the re-evaluation signal (is_set())
    lock,           \* self.lock: "free" or the task that holds it
    network_done,   \* self._network_done
    subscribed,     \* the subscription to the own state topic is active
    active,         \* the mode strategies that are activated right now
    loop,           \* position of _loop: [pc, t], t the seconds since its start,
                    \* where they are counted
    init,           \* position of _init_network: [pc, n], n the 250 ms sleeps of
                    \* the recovery wait so far, where they are counted
    away,           \* the changeAwayMode calls waiting for the lock, counted by payload
    call,           \* the changeMode calls in flight, one per caller: [pc, msg]
    restore,        \* position of _restore: [pc, msg]; msg is the snapshot until
                    \* it is merged
    last,           \* what the last step did: [fn, wrote, raised], the handler
                    \* that ran, whether it wrote self.state and with the lock held
                    \* or not, and the exception it ended with
    ctor,           \* Climate.__init__ and its modes argument: [modes, loadable,
                    \* _modes, pc], the list, the strategies that can be loaded,
                    \* self._modes and how far the constructor is
    battery,        \* the Battery component: its configuration, the position of its
                    \* _loop and the notification events registered with it
    during,         \* a setpoint command has set the signal during the evaluation
                    \* pass that is in progress or was the last to finish
    echo            \* the setpoints published on temp_high and temp_low by the
                    \* _publishState in progress, where they are recorded

vars == <<state, event, lock, network_done, subscribed, active, loop, init, away,
          call, restore, last, battery, ctor, during, echo>>

-----------------------------------------------------------------------------
(* Configuration: the constructor's defaults and the example configuration *)

min_temp == 32
max_temp == 56

\* modes: ["off", "heat"], the example configuration
Modes == {"off", "heat"}
MODE_OFF == "off"
AWAY_ON == "ON"
AWAY_OFF == "OFF"
\* _mqtt.payload_on / _mqtt.payload_off, and a payload in neither
payload_on == {"ON"}
payload_off == {"OFF"}
Payloads == payload_on \cup payload_off \cup {"toggle"}
\* the labels a mode strategy writes to CURRENT_ACTION
Actions == {"off", "heating"}

\* Messages on the command topics: 18 and 24 degC, with 30 degC (above max_temp)
\* for the high and 15 degC (below min_temp) for the low setpoint; off, heat, cool
HighInputs == {36, 48, 60}
LowInputs == {30, 36, 48}
ModeInputs == Modes \cup {"cool"}

\* `for _ in range(16)`, the rounds of the recovery wait
PollRounds == 16

\* `ticks_diff(ticks_ms(), t) < 30000`, the guard of the control loop, in seconds
GuardSeconds == 30

\* Bound on the length of the modes list given to the constructor
MaxModes == 3

\* Bound on the number of changeAwayMode calls that wait for the lock at once
MaxWaiting == 1

Free == "free"

InitialState ==
    [current_temp_high |-> 44,
     current_temp_low |-> 40,
     away |-> AWAY_OFF,
     storage_away_temp_high |-> 33,
     storage_away_temp_low |-> 31,
     storage_temp_high |-> 44,
     storage_temp_low |-> 40,
     current_mode |-> MODE_OFF,
     current_action |-> "off"]

\* Retained snapshots the broker may hold, each a state an earlier run published:
\* heating with the high setpoint at 24 degC; away, with the mode off; and one of a
\* run that had the mode "cool" configured, with the low setpoint at 18 degC.
Snapshots ==
    { [InitialState EXCEPT !.current_mode = "heat", !.current_action = "heating",
                           !.current_temp_high = 48, !.storage_temp_high = 48],
      [InitialState EXCEPT !.away = AWAY_ON, !.current_temp_high = 33,
                           !.current_temp_low = 31],
      [InitialState EXCEPT !.current_mode = "cool", !.current_action = "heating",
                           !.current_temp_low = 36, !.storage_temp_low = 36] }

Idle == [pc |-> "idle", msg |-> MODE_OFF]

\* A step of a task that wrote nothing and ended no handler
Quiet == [fn |-> "none", wrote |-> "no", raised |-> "none"]

\* MODES_SUPPORTED, and the names a modes list is made of
MODES_SUPPORTED == {"off", "heat"}
ModeNames == MODES_SUPPORTED \cup {"cool"}

\* list.remove(x): the list without its first x
RECURSIVE Remove(_, _)
Remove(list, x) ==
    IF list = <<>> THEN <<>>
    ELSE IF Head(list) = x THEN Tail(list)
    ELSE <<Head(list)>> \o Remove(Tail(list), x)

\* `for mode in modes:` from the i-th element on. The iterator of a Python list
\* is an index into the list as it is at each round: an unsupported name is removed
\* from the list while the index moves on; a supported one is imported and
\* instantiated, and entered into self._modes unless that fails.
RECURSIVE ForModes(_, _, _, _)
ForModes(modes, i, loadable, _modes) ==
    IF i > Len(modes) THEN [modes |-> modes, _modes |-> _modes]
    ELSE IF modes[i] \notin MODES_SUPPORTED
         THEN ForModes(Remove(modes, modes[i]), i + 1, loadable, _modes)
         ELSE IF modes[i] \in loadable
              THEN ForModes(modes, i + 1, loadable, _modes \cup {modes[i]})
              ELSE ForModes(modes, i + 1, loadable, _modes)

\* The constructor called with a modes list
New(modes, loadable) ==
    [modes |-> modes, loadable |-> loadable, _modes |-> {}, pc |-> "new"]

\* Climate.__init__ on c: "off" is appended when absent, the list is gone through,
\* and str(self._modes["off"]) in the state record raises KeyError without "off"
Constructed(c) ==
    LET modes == IF \E i \in 1..Len(c.modes) : c.modes[i] = "off"
                 THEN c.modes ELSE Append(c.modes, "off")
        r == ForModes(modes, 1, c.loadable, {})
    IN  [c EXCEPT !.modes = r.modes,
                  !._modes = r._modes,
                  !.pc = IF "off" \in r._modes THEN "done" ELSE "KeyError"]

\* Battery.__init__: the bounds, the cutoff pin (driven to 0 when configured), no
\* event registered, and the task of _loop created. adc is the voltage that
\* self._adc.readVoltage() times the multiplier gives.
BatteryStart(vmax, vmin, pin, adc) ==
    [voltage_max |-> vmax,
     voltage_min |-> vmin,
     cutoff_pin |-> pin,
     adc |-> adc,
     event_high |-> "None",
     event_low |-> "None",
     data_high |-> 0,
     data_low |-> 0,
     pc |-> "cycle"]

\* No setpoint published by a pass in progress
NoEcho == [high |-> 0, low |-> 0]

\* Climate.__init__
InitClimate ==
    /\ state = InitialState
    /\ event = FALSE
    /\ lock = Free
    /\ network_done = FALSE
    /\ subscribed = FALSE
    /\ active = {}
    /\ loop = [pc |-> "start", t |-> 0]
    /\ init = [pc |-> "start", n |-> 0]
    /\ away = [p \in payload_on \cup payload_off |-> 0]
    /\ call = [k \in {"mode", "restore"} |-> Idle]
    /\ restore = [pc |-> "idle", msg |-> InitialState]
    /\ last = Quiet
    /\ during = FALSE
    /\ echo = NoEcho

\* The controller, beside a battery monitor with 4.2 V and 3.0 V as its bounds
Init ==
    /\ InitClimate
    /\ battery = BatteryStart(42, 30, "None", 36)
    /\ ctor = Constructed(New(<<"off", "heat">>, MODES_SUPPORTED))

\* A write to self.state by task t while `holder` holds the lock
Held(holder, t) == IF holder = t THEN "locked" ELSE "unlocked"

\* The command topics deliver messages once Component._init_network has subscribed
Live == init.pc # "start"

\* The control loop is inside `async with self.lock`, suspended at the sensor
\* read, the strategy's trigger or a publish
InPass == loop.pc \in {"read", "trigger", "pub_high", "pub_low", "pub_state"}

-----------------------------------------------------------------------------
(* _loop *)

\* The pass entered without `async with self.lock`
LoopEnterFromUnlocked(l) ==
    /\ lock' = lock
    /\ loop' = [l EXCEPT !.pc = "read"]
    /\ during' = FALSE

\* `async with self.lock` of the loop: taken at once when free, else the task
\* waits. l is the loop's record with its clock read.
LoopEnterFrom(l) ==
    IF lock = Free
    THEN /\ lock' = "loop"
         /\ loop' = [l EXCEPT !.pc = "read"]
         /\ during' = FALSE
    ELSE /\ lock' = lock
         /\ loop' = [l EXCEPT !.pc = "lock"]
         /\ during' = during

LoopEnter == LoopEnterFrom(loop)

\* The inner wait left on the signal only
LoopWaitCheckFromSignalOnly(l, expired) ==
    IF event
    THEN LoopEnterFrom(l)
    ELSE /\ loop' = [l EXCEPT !.pc = "wait"]
         /\ lock' = lock
         /\ during' = during

\* The inner wait `while ticks_diff(ticks_ms(), t) < interval * 1000 and
\* self.event.is_set() is False`, evaluated with the interval over or not
LoopWaitCheckFrom(l, expired) ==
    IF expired \/ event
    THEN LoopEnterFrom(l)
    ELSE /\ loop' = [l EXCEPT !.pc = "wait"]
         /\ lock' = lock
         /\ during' = during

LoopWaitCheck(expired) == LoopWaitCheckFrom(loop, expired)

\* The first loop `while self._network_done is False and ticks_diff(ticks_ms(), t)
\* < 30000`, one asyncio.sleep(1) at a time, then t = 0 and the inner wait. The
\* clock is not modelled: at the first check ("start") no time has passed, and at
\* any later one the 30 s may be over.
LoopGuard ==
    /\ loop.pc \in {"start", "guard"}
    /\ \E over \in BOOLEAN :
          /\ loop.pc = "start" => over = FALSE
          /\ IF network_done = FALSE /\ over = FALSE
             THEN /\ loop' = [loop EXCEPT !.pc = "guard"]
                  /\ UNCHANGED <<lock, during, echo>>
             ELSE \E expired \in BOOLEAN : LoopWaitCheck(expired)
    /\ last' = Quiet
    /\ UNCHANGED <<ctor, battery, state, event, network_done, subscribed, active, init, away, call,
                   restore, echo>>

\* The guard with 3000 for 30000
LoopGuardCountedShort ==
    /\ loop.pc \in {"start", "guard"}
    /\ \E now \in loop.t .. GuardSeconds :
          /\ loop.pc = "start" => now = 0
          /\ loop.pc = "guard" => now > loop.t
          /\ IF network_done = FALSE /\ now < 3
             THEN /\ loop' = [loop EXCEPT !.pc = "guard", !.t = now]
                  /\ UNCHANGED <<lock, during, echo>>
             ELSE \E expired \in BOOLEAN :
                     LoopWaitCheckFrom([loop EXCEPT !.t = now], expired)
    /\ last' = Quiet
    /\ UNCHANGED <<ctor, battery, state, event, network_done, subscribed, active, init, away,
                   call, restore, echo>>

\* The first loop with its clock: `t = ticks_ms()`, then `while self._network_done
\* is False and ticks_diff(ticks_ms(), t) < 30000: await asyncio.sleep(1)`. `now`
\* is the time since the start at the check, in seconds: 0 at the first check, and
\* after every sleep at least one second more (the count stops at 30).
LoopGuardCounted ==
    /\ loop.pc \in {"start", "guard"}
    /\ \E now \in loop.t .. GuardSeconds :
          /\ loop.pc = "start" => now = 0
          /\ loop.pc = "guard" => now > loop.t
          /\ IF network_done = FALSE /\ now < GuardSeconds
             THEN /\ loop' = [loop EXCEPT !.pc = "guard", !.t = now]
                  /\ UNCHANGED <<lock, during, echo>>
             ELSE \E expired \in BOOLEAN :
                     LoopWaitCheckFrom([loop EXCEPT !.t = now], expired)
    /\ last' = Quiet
    /\ UNCHANGED <<ctor, battery, state, event, network_done, subscribed, active, init, away,
                   call, restore, echo>>

\* Waking from asyncio.sleep(1) in the inner wait
LoopWait ==
    /\ loop.pc = "wait"
    /\ \E expired \in BOOLEAN : LoopWaitCheck(expired)
    /\ last' = Quiet
    /\ UNCHANGED <<ctor, battery, state, event, network_done, subscribed, active, init, away, call,
                   restore, echo>>

\* The lock is handed to the waiting loop
LoopLock ==
    /\ loop.pc = "lock"
    /\ lock = Free
    /\ LoopEnter
    /\ last' = Quiet
    /\ UNCHANGED <<ctor, battery, state, event, network_done, subscribed, active, init, away, call,
                   restore, echo>>

\* An exception ending the task with the lock still held
LoopDiesHolding ==
    /\ lock' = lock
    /\ loop' = [loop EXCEPT !.pc = "dead"]

\* An exception leaves `async with self.lock` (the lock is released) and ends the task
LoopDies ==
    /\ lock' = Free
    /\ loop' = [loop EXCEPT !.pc = "dead"]

\* temp_sensor.temperature(publish=True, timeout=5) returns or raises
LoopRead ==
    /\ loop.pc = "read"
    /\ \/ /\ loop' = [loop EXCEPT !.pc = "trigger"]
          /\ lock' = lock
       \/ LoopDies
    /\ last' = Quiet
    /\ UNCHANGED <<ctor, battery, state, event, network_done, subscribed, active, init, away, call,
                   restore, during, echo>>

\* The trigger call outside `try`: its exception leaves `async with self.lock` and
\* ends the task
LoopTriggerUncaught ==
    /\ loop.pc = "trigger"
    /\ \/ /\ \E a \in Actions :
                /\ state' = [state EXCEPT !.current_action = a]
                /\ last' = [fn |-> "_loop", wrote |-> Held(lock, "loop"),
                            raised |-> "none"]
          /\ loop' = [loop EXCEPT !.pc = "pub_high"]
          /\ lock' = lock
       \/ /\ state' = state
          /\ last' = [fn |-> "_loop", wrote |-> "no", raised |-> "Exception"]
          /\ LoopDies
    /\ UNCHANGED <<ctor, battery, event, network_done, subscribed, active, init, away, call,
                   restore, during, echo>>

\* The active strategy's trigger(self, cur_temp) returns, having set CURRENT_ACTION,
\* or raises, which `except Exception` catches and logs; _publishState starts
LoopTrigger ==
    /\ loop.pc = "trigger"
    /\ \/ \E a \in Actions :
             /\ state' = [state EXCEPT !.current_action = a]
             /\ last' = [fn |-> "_loop", wrote |-> Held(lock, "loop"), raised |-> "none"]
       \/ /\ state' = state
          /\ last' = [fn |-> "_loop", wrote |-> "no", raised |-> "caught"]
    /\ loop' = [loop EXCEPT !.pc = "pub_high"]
    /\ UNCHANGED <<ctor, battery, event, lock, network_done, subscribed, active, init, away, call,
                   restore, during, echo>>

\* What the step that published self.state on the state topic did
Snapshot == [fn |-> "_publishState", wrote |-> "no", raised |-> "none"]

\* _publishState: the three publishes, one step each with the value self.state has
\* at that step, each returning or raising; after the last the lock is released.
\* e is the record of the setpoints published after the step.
Publishes(e) ==
    /\ loop.pc \in {"pub_high", "pub_low", "pub_state"}
    /\ \/ /\ loop' = [loop EXCEPT !.pc = CASE loop.pc = "pub_high" -> "pub_low"
                                          [] loop.pc = "pub_low" -> "pub_state"
                                          [] OTHER -> "clear"]
          /\ lock' = IF loop.pc = "pub_state" THEN Free ELSE lock
          /\ last' = IF loop.pc = "pub_state" THEN Snapshot ELSE Quiet
       \/ /\ LoopDies
          /\ last' = Quiet
    /\ echo' = e
    /\ UNCHANGED <<ctor, battery, state, event, network_done, subscribed, active, init, away, call,
                   restore, during>>

\* _publishState with the published setpoints left unrecorded
LoopPublish == Publishes(echo)

\* _publishState with the values published on temp_high and on temp_low recorded
LoopPublishEchoed ==
    Publishes(CASE loop.pc = "pub_high" -> [echo EXCEPT !.high = state.current_temp_high]
                [] loop.pc = "pub_low" -> [echo EXCEPT !.low = state.current_temp_low]
                [] OTHER -> echo)

\* self.event.clear(); t = ticks_ms(); and the inner wait starts over. e is the
\* record of published setpoints after the step.
Clears(e) ==
    /\ loop.pc = "clear"
    /\ event' = FALSE
    /\ loop' = [loop EXCEPT !.pc = "wait"]
    /\ last' = Quiet
    /\ echo' = e
    /\ UNCHANGED <<ctor, battery, state, lock, network_done, subscribed, active, init, away, call,
                   restore, during>>

LoopClear == Clears(echo)

\* The end of a pass whose published setpoints were recorded: the record is over
LoopClearEchoed == Clears(NoEcho)

-----------------------------------------------------------------------------
(* _init_network *)

\* super()._init_network() returns: the topics of the constructor are subscribed
InitStart ==
    /\ init.pc = "start"
    /\ init' = [init EXCEPT !.pc = "subscribed"]
    /\ subscribed' = TRUE
    /\ last' = Quiet
    /\ UNCHANGED <<ctor, battery, state, event, lock, network_done, active, loop, away, call, restore,
                   during, echo>>

\* `for _ in range(16)`: leave when _network_done, else sleep 250 ms. The rounds
\* are not counted: after the first sleep ("poll") the 16 rounds may be over at any
\* check. After the loop: unsubscribe if nothing was restored, else set the flag
\* and publish.
InitPoll ==
    /\ init.pc \in {"subscribed", "poll"}
    /\ \E over \in BOOLEAN :
          /\ init.pc = "subscribed" => over = FALSE
          /\ IF network_done = FALSE /\ over = FALSE
             THEN /\ init' = [init EXCEPT !.pc = "poll"]
                  /\ network_done' = network_done
             ELSE IF network_done = FALSE
                  THEN /\ init' = [init EXCEPT !.pc = "unsubscribe"]
                       /\ network_done' = network_done
                  ELSE /\ init' = [init EXCEPT !.pc = "pub_low"]
                       /\ network_done' = TRUE
    /\ last' = Quiet
    /\ UNCHANGED <<ctor, battery, state, event, lock, subscribed, active, loop, away, call, restore,
                   during, echo>>

\* The recovery wait with one round too many
InitPollCountedOneMore ==
    /\ init.pc \in {"subscribed", "poll"}
    /\ IF network_done
       THEN init' = [init EXCEPT !.pc = "pub_low"]
       ELSE IF init.n < PollRounds + 1
            THEN init' = [init EXCEPT !.pc = "poll", !.n = @ + 1]
            ELSE init' = [init EXCEPT !.pc = "unsubscribe"]
    /\ last' = Quiet
    /\ UNCHANGED <<ctor, battery, state, event, lock, network_done, subscribed, active, loop, away,
                   call, restore, during, echo>>

\* `for _ in range(16)` with its rounds counted: in each round leave when
\* _network_done, else sleep 250 ms; after the 16th sleep the loop is over. Then
\* unsubscribe if nothing was restored, else set the flag (it is set) and publish.
InitPollCounted ==
    /\ init.pc \in {"subscribed", "poll"}
    /\ IF network_done
       THEN init' = [init EXCEPT !.pc = "pub_low"]
       ELSE IF init.n < PollRounds
            THEN init' = [init EXCEPT !.pc = "poll", !.n = @ + 1]
            ELSE init' = [init EXCEPT !.pc = "unsubscribe"]
    /\ last' = Quiet
    /\ UNCHANGED <<ctor, battery, state, event, lock, network_done, subscribed, active, loop, away,
                   call, restore, during, echo>>

\* _mqtt.unsubscribe(state topic) returns; self._network_done = True
InitUnsubscribe ==
    /\ init.pc = "unsubscribe"
    /\ subscribed' = FALSE
    /\ network_done' = TRUE
    /\ init' = [init EXCEPT !.pc = "pub_low"]
    /\ last' = Quiet
    /\ UNCHANGED <<ctor, battery, state, event, lock, active, loop, away, call, restore, during, echo>>

\* The retained publishes of the low and the high setpoint
InitPublish ==
    /\ init.pc \in {"pub_low", "pub_high"}
    /\ init' = [init EXCEPT !.pc = IF init.pc = "pub_low" THEN "pub_high" ELSE "done"]
    /\ last' = Quiet
    /\ UNCHANGED <<ctor, battery, state, event, lock, network_done, subscribed, active, loop, away,
                   call, restore, during, echo>>

-----------------------------------------------------------------------------
(* changeTempHigh, changeTempLow: no await, so each is one step *)

\* changeTempHigh without the check against max_temp
changeTempHighUnchecked(msg) ==
    /\ Live
    /\ state' = IF state.away = AWAY_ON
                THEN [state EXCEPT !.current_temp_high = msg,
                                   !.storage_away_temp_high = msg]
                ELSE [state EXCEPT !.current_temp_high = msg,
                                   !.storage_temp_high = msg]
    /\ event' = TRUE
    /\ during' = (during \/ InPass)
    /\ last' = [fn |-> "changeTempHigh", wrote |-> Held(lock, "changeTempHigh"),
                raised |-> "none"]
    /\ UNCHANGED <<ctor, battery, lock, network_done, subscribed, active, loop, init, away, call,
                   restore, echo>>

\* changeTempHigh storing the value in the home slot whatever the away state
changeTempHighHomeSlot(msg) ==
    /\ Live
    /\ IF msg > max_temp
       THEN /\ last' = [fn |-> "changeTempHigh", wrote |-> "no", raised |-> "ValueError"]
            /\ UNCHANGED <<state, event, during, echo>>
       ELSE /\ state' = [state EXCEPT !.current_temp_high = msg,
                                      !.storage_temp_high = msg]
            /\ event' = TRUE
            /\ during' = (during \/ InPass)
            /\ last' = [fn |-> "changeTempHigh", wrote |-> Held(lock, "changeTempHigh"),
                        raised |-> "none"]
    /\ UNCHANGED <<ctor, battery, lock, network_done, subscribed, active, loop, init, away, call,
                   restore, echo>>

changeTempHigh(msg) ==
    /\ Live
    /\ IF msg > max_temp
       THEN /\ last' = [fn |-> "changeTempHigh", wrote |-> "no", raised |-> "ValueError"]
            /\ UNCHANGED <<state, event, during, echo>>
       ELSE /\ state' = IF state.away = AWAY_ON
                        THEN [state EXCEPT !.current_temp_high = msg,
                                           !.storage_away_temp_high = msg]
                        ELSE [state EXCEPT !.current_temp_high = msg,
                                           !.storage_temp_high = msg]
            /\ event' = TRUE
            /\ during' = (during \/ InPass)
            /\ last' = [fn |-> "changeTempHigh", wrote |-> Held(lock, "changeTempHigh"),
                        raised |-> "none"]
    /\ UNCHANGED <<ctor, battery, lock, network_done, subscribed, active, loop, init, away, call,
                   restore, echo>>

\* changeTempLow storing the value in the home slot whatever the away state
changeTempLowHomeSlot(msg) ==
    /\ Live
    /\ IF msg < min_temp
       THEN /\ last' = [fn |-> "changeTempLow", wrote |-> "no", raised |-> "ValueError"]
            /\ UNCHANGED <<state, event, during, echo>>
       ELSE /\ state' = [state EXCEPT !.current_temp_low = msg,
                                      !.storage_temp_low = msg]
            /\ event' = TRUE
            /\ during' = (during \/ InPass)
            /\ last' = [fn |-> "changeTempLow", wrote |-> Held(lock, "changeTempLow"),
                        raised |-> "none"]
    /\ UNCHANGED <<ctor, battery, lock, network_done, subscribed, active, loop, init, away, call,
                   restore, echo>>

\* changeTempLow storing the value in the home and in the away slot
changeTempLowBothSlots(msg) ==
    /\ Live
    /\ IF msg < min_temp
       THEN /\ last' = [fn |-> "changeTempLow", wrote |-> "no", raised |-> "ValueError"]
            /\ UNCHANGED <<state, event, during, echo>>
       ELSE /\ state' = [state EXCEPT !.current_temp_low = msg,
                                      !.storage_away_temp_low = msg,
                                      !.storage_temp_low = msg]
            /\ event' = TRUE
            /\ during' = (during \/ InPass)
            /\ last' = [fn |-> "changeTempLow", wrote |-> Held(lock, "changeTempLow"),
                        raised |-> "none"]
    /\ UNCHANGED <<ctor, battery, lock, network_done, subscribed, active, loop, init, away, call,
                   restore, echo>>

changeTempLow(msg) ==
    /\ Live
    /\ IF msg < min_temp
       THEN /\ last' = [fn |-> "changeTempLow", wrote |-> "no", raised |-> "ValueError"]
            /\ UNCHANGED <<state, event, during, echo>>
       ELSE /\ state' = IF state.away = AWAY_ON
                        THEN [state EXCEPT !.current_temp_low = msg,
                                           !.storage_away_temp_low = msg]
                        ELSE [state EXCEPT !.current_temp_low = msg,
                                           !.storage_temp_low = msg]
            /\ event' = TRUE
            /\ during' = (during \/ InPass)
            /\ last' = [fn |-> "changeTempLow", wrote |-> Held(lock, "changeTempLow"),
                        raised |-> "none"]
    /\ UNCHANGED <<ctor, battery, lock, network_done, subscribed, active, loop, init, away, call,
                   restore, echo>>

-----------------------------------------------------------------------------
(* changeAwayMode *)

\* The body of changeAwayMode run without `async with self.lock`
AwayBodyNoLock(msg) ==
    /\ state' = IF msg \in payload_on
                THEN [state EXCEPT !.away = AWAY_ON,
                                   !.current_temp_high = state.storage_away_temp_high,
                                   !.current_temp_low = state.storage_away_temp_low]
                ELSE [state EXCEPT !.away = AWAY_OFF,
                                   !.current_temp_high = state.storage_temp_high,
                                   !.current_temp_low = state.storage_temp_low]
    /\ event' = TRUE
    /\ last' = [fn |-> "changeAwayMode", wrote |-> Held(lock, "changeAwayMode"),
                raised |-> "none"]
    /\ lock' = lock

\* The body of `async with self.lock` for an "on" or an "off" payload; it has no
\* await, so the lock is taken, the state written and the lock released in one step
AwayBody(msg) ==
    LET holder == IF lock = Free THEN "changeAwayMode" ELSE lock
    IN  /\ lock = Free
        /\ state' = IF msg \in payload_on
                    THEN [state EXCEPT !.away = AWAY_ON,
                                       !.current_temp_high = state.storage_away_temp_high,
                                       !.current_temp_low = state.storage_away_temp_low]
                    ELSE [state EXCEPT !.away = AWAY_OFF,
                                       !.current_temp_high = state.storage_temp_high,
                                       !.current_temp_low = state.storage_temp_low]
        /\ event' = TRUE
        /\ last' = [fn |-> "changeAwayMode", wrote |-> Held(holder, "changeAwayMode"),
                    raised |-> "none"]
        /\ lock' = Free

Waiting == away["ON"] + away["OFF"]

\* The away state an "on" or an "off" payload asks for
Requested(msg) == IF msg \in payload_on THEN AWAY_ON ELSE AWAY_OFF

\* A message on the away topic: rejected, already in that state, run, or queued
\* behind the holder of the lock
changeAwayMode(msg) ==
    /\ Live
    /\ IF msg \notin payload_on \cup payload_off
       THEN /\ last' = [fn |-> "changeAwayMode", wrote |-> "no", raised |-> "TypeError"]
            /\ UNCHANGED <<state, event, lock, away>>
       ELSE IF state.away = Requested(msg)
            THEN /\ last' = [fn |-> "changeAwayMode", wrote |-> "no", raised |-> "none"]
                 /\ UNCHANGED <<state, event, lock, away>>
            ELSE IF lock = Free
                 THEN /\ AwayBody(msg)
                      /\ away' = away
                 ELSE /\ Waiting < MaxWaiting
                      /\ away' = [away EXCEPT ![msg] = @ + 1]
                      /\ last' = Quiet
                      /\ UNCHANGED <<state, event, lock>>
    /\ UNCHANGED <<ctor, battery, network_done, subscribed, active, loop, init, call, restore, during, echo>>

\* The lock is handed to a waiting changeAwayMode
AwayLock ==
    /\ \E msg \in payload_on \cup payload_off :
          /\ away[msg] > 0
          /\ AwayBody(msg)
          /\ away' = [away EXCEPT ![msg] = @ - 1]
    /\ UNCHANGED <<ctor, battery, network_done, subscribed, active, loop, init, call, restore, during, echo>>

-----------------------------------------------------------------------------
(* changeMode, called by the MQTT client (caller "mode") and by _restore *)

Callers == {"mode", "restore"}

\* changeMode is left by `return False` ("return") or by an exception. The MQTT
\* client's call ends there; _restore catches AttributeError only, then sets
\* _network_done and sleeps one second, and any other exception ends _restore.
Return(k, how) ==
    /\ call' = [call EXCEPT ![k] = Idle]
    /\ IF k = "mode"
       THEN UNCHANGED <<restore, network_done>>
       ELSE IF how \in {"return", "AttributeError"}
            THEN /\ restore' = [restore EXCEPT !.pc = "sleep", !.msg = InitialState]
                 /\ network_done' = TRUE
            ELSE /\ restore' = [restore EXCEPT !.pc = "idle", !.msg = InitialState]
                 /\ network_done' = network_done

\* The exception that leaves the handler of caller k when changeMode ends by `how`
Raised(k, how) ==
    IF how = "return" \/ (k = "restore" /\ how = "AttributeError") THEN "none" ELSE how

\* The handler that calls changeMode for caller k
Handler(k) == IF k = "mode" THEN "changeMode" ELSE "_restore"

\* changeMode stays suspended at position pc
Suspend(k, pc, msg) ==
    /\ call' = [call EXCEPT ![k] = [pc |-> pc, msg |-> msg]]
    /\ restore' = IF k = "restore"
                  THEN [restore EXCEPT !.pc = "changeMode", !.msg = InitialState]
                  ELSE restore
    /\ network_done' = network_done

\* changeMode without the check `msg not in self._modes`
ModeEnterUnchecked(k, msg, w) ==
    IF msg = state.current_mode
    THEN /\ Return(k, "return")
         /\ last' = [fn |-> Handler(k), wrote |-> w, raised |-> "none"]
         /\ lock' = lock
    ELSE /\ last' = [fn |-> IF w = "no" THEN "none" ELSE Handler(k), wrote |-> w,
                     raised |-> "none"]
         /\ IF lock = Free
            THEN /\ Suspend(k, "deactivate", msg)
                 /\ lock' = k
            ELSE /\ Suspend(k, "lock", msg)
                 /\ lock' = lock

\* The start of changeMode up to its first await: the two checks, then the lock and
\* the call of the current strategy's deactivate. w tells whether the caller wrote
\* self.state before the call.
ModeEnter(k, msg, w) ==
    IF msg \notin Modes
    THEN /\ Return(k, "AttributeError")
         /\ last' = [fn |-> Handler(k), wrote |-> w, raised |-> Raised(k, "AttributeError")]
         /\ lock' = lock
    ELSE IF msg = state.current_mode
         THEN /\ Return(k, "return")
              /\ last' = [fn |-> Handler(k), wrote |-> w, raised |-> "none"]
              /\ lock' = lock
         ELSE /\ last' = [fn |-> IF w = "no" THEN "none" ELSE Handler(k), wrote |-> w,
                          raised |-> "none"]
              /\ IF lock = Free
                 THEN /\ Suspend(k, "deactivate", msg)
                      /\ lock' = k
                 ELSE /\ Suspend(k, "lock", msg)
                      /\ lock' = lock

\* A message on the mode topic
changeMode(msg) ==
    /\ Live
    /\ call["mode"].pc = "idle"
    /\ ModeEnter("mode", msg, "no")
    /\ UNCHANGED <<ctor, battery, state, event, subscribed, active, loop, init, away, during, echo>>

\* The lock is handed to a waiting changeMode
ModeLock(k) ==
    /\ call[k].pc = "lock"
    /\ lock = Free
    /\ Suspend(k, "deactivate", call[k].msg)
    /\ lock' = k
    /\ last' = Quiet
    /\ UNCHANGED <<ctor, battery, state, event, subscribed, active, loop, init, away, during, echo>>

\* What a call of a strategy's activate or deactivate can end with
StrategyResults == {"True", "False", "raise"}

\* changeMode going on to activate whatever deactivate returned
ModeDeactivateIgnored(k) ==
    /\ call[k].pc = "deactivate"
    /\ \E r \in StrategyResults :
          CASE r = "True" ->
                  /\ active' = active \ {state.current_mode}
                  /\ Suspend(k, "activate", call[k].msg)
                  /\ lock' = lock
                  /\ last' = Quiet
            [] r = "False" ->
                  /\ active' = active
                  /\ Suspend(k, "activate", call[k].msg)
                  /\ lock' = lock
                  /\ last' = Quiet
            [] OTHER ->
                  /\ active' = active
                  /\ Return(k, "Exception")
                  /\ lock' = Free
                  /\ last' = [fn |-> "changeMode", wrote |-> "no", raised |-> "Exception"]
    /\ UNCHANGED <<ctor, battery, state, event, subscribed, loop, init, away, during, echo>>

\* self._modes[self.state[CURRENT_MODE]].deactivate(self) is over
ModeDeactivate(k) ==
    /\ call[k].pc = "deactivate"
    /\ \E r \in StrategyResults :
          CASE r = "True" ->
                  /\ active' = active \ {state.current_mode}
                  /\ Suspend(k, "activate", call[k].msg)
                  /\ lock' = lock
                  /\ last' = Quiet
            [] r = "False" ->
                  /\ active' = active
                  /\ Return(k, "return")
                  /\ lock' = Free
                  /\ last' = [fn |-> "changeMode", wrote |-> "no", raised |-> "none"]
            [] OTHER ->
                  /\ active' = active
                  /\ Return(k, "Exception")
                  /\ lock' = Free
                  /\ last' = [fn |-> "changeMode", wrote |-> "no", raised |-> "Exception"]
    /\ UNCHANGED <<ctor, battery, state, event, subscribed, loop, init, away, during, echo>>

\* `await self._modes[MODE_OFF].activate()` passes no climate argument to
\* activate(self, climate): the call raises TypeError before anything is awaited
OffActivate == "TypeError"

\* mode.activate(self) is over
ModeActivate(k) ==
    /\ call[k].pc = "activate"
    /\ \E r \in StrategyResults :
          CASE r = "True" ->
                  /\ active' = active \cup {call[k].msg}
                  /\ state' = [state EXCEPT !.current_mode = call[k].msg]
                  /\ event' = TRUE
                  /\ Return(k, "return")
                  /\ last' = [fn |-> "changeMode", wrote |-> Held(lock, k), raised |-> "none"]
            [] r = "False" ->
                  /\ state' = [state EXCEPT !.current_mode = MODE_OFF]
                  /\ IF OffActivate = "True"
                     THEN /\ active' = active \cup {MODE_OFF}
                          /\ event' = TRUE
                          /\ Return(k, "return")
                          /\ last' = [fn |-> "changeMode", wrote |-> Held(lock, k),
                                      raised |-> "none"]
                     ELSE /\ active' = active
                          /\ event' = event
                          /\ Return(k, OffActivate)
                          /\ last' = [fn |-> "changeMode", wrote |-> Held(lock, k),
                                      raised |-> Raised(k, OffActivate)]
            [] OTHER ->
                  /\ UNCHANGED <<state, event, active>>
                  /\ Return(k, "Exception")
                  /\ last' = [fn |-> "changeMode", wrote |-> "no", raised |-> "Exception"]
    /\ lock' = Free
    /\ UNCHANGED <<ctor, battery, subscribed, loop, init, away, during, echo>>

-----------------------------------------------------------------------------
(* _restore *)

\* A message arrives on the own state topic; _restore awaits the unsubscribe
RestoreDeliver(msg) ==
    /\ subscribed
    /\ restore.pc = "idle"
    /\ restore' = [pc |-> "unsubscribe", msg |-> msg]
    /\ last' = Quiet
    /\ UNCHANGED <<ctor, battery, state, event, lock, network_done, subscribed, active, loop, init,
                   away, call, during, echo>>

\* The merge without `del msg[CURRENT_ACTION]`
UpdateWithAction(s, msg) == [msg EXCEPT !.current_mode = s.current_mode]

\* The merge without `del msg[CURRENT_MODE]`
UpdateWithMode(s, msg) == [msg EXCEPT !.current_action = s.current_action]

\* self.state.update(msg) with CURRENT_MODE and CURRENT_ACTION deleted from msg
Update(s, msg) ==
    [msg EXCEPT !.current_mode = s.current_mode, !.current_action = s.current_action]

\* The unsubscribe is over: merge the snapshot and call changeMode with its mode
RestoreMerge ==
    /\ restore.pc = "unsubscribe"
    /\ subscribed' = FALSE
    /\ state' = Update(state, restore.msg)
    /\ ModeEnter("restore", restore.msg.current_mode, Held(lock, "restore"))
    /\ UNCHANGED <<ctor, battery, event, active, loop, init, away, during, echo>>

\* asyncio.sleep(1) is over: self.event.set()
RestoreWake ==
    /\ restore.pc = "sleep"
    /\ event' = TRUE
    /\ restore' = [restore EXCEPT !.pc = "idle"]
    /\ last' = [fn |-> "_restore", wrote |-> "no", raised |-> "none"]
    /\ UNCHANGED <<ctor, battery, state, lock, network_done, subscribed, active, loop, init, away,
                   call, during, echo>>

-----------------------------------------------------------------------------
(* Battery (pysmartnode/components/sensors/battery.py), the threshold monitor. *)
(* Voltages are counted in tenths of a volt.                                   *)

\* voltage_max, voltage_min and cutoff_pin of the configurations looked at
VoltagesMax == {40, 42}
VoltagesMin == {30, 33}
CutoffPins == {"None", "0"}
\* The battery flat, in its range, and overcharged
Samples == {28, 36, 45}

\* The events a consumer can register: one not set, and one still set
Events == {"released", "set"}

\* self._read(...) and self._read(publish=False): _read is `async def`, and the call
\* is not awaited, so its value is the coroutine object; the body of _read (the
\* ADC read, the publish) does not run
ReadCall == [kind |-> "coroutine", value |-> 0]

\* `a > b` and `a < b` of Python with b a number: defined between numbers only
Greater(a, b) ==
    IF a.kind # "number" THEN "TypeError" ELSE IF a.value > b THEN "True" ELSE "False"

Less(a, b) ==
    IF a.kind # "number" THEN "TypeError" ELSE IF a.value < b THEN "True" ELSE "False"

\* event.release() on every registered event
Released(b) ==
    [b EXCEPT !.event_high = IF @ = "None" THEN @ ELSE "released",
              !.event_low = IF @ = "None" THEN @ ELSE "released"]

registerEventHigh(e) ==
    /\ battery' = [battery EXCEPT !.event_high = e]
    /\ UNCHANGED <<ctor, state, event, lock, network_done, subscribed, active, loop,
                   init, away, call, restore, last, during, echo>>

registerEventLow(e) ==
    /\ battery' = [battery EXCEPT !.event_low = e]
    /\ UNCHANGED <<ctor, state, event, lock, network_done, subscribed, active, loop,
                   init, away, call, restore, last, during, echo>>

\* One round of `while True` in Battery._loop, from its top to its first await: the
\* registered events are released, voltage is assigned the call of _read, and
\* voltage is compared with the bounds. An exception ends the task ("dead"); with
\* the high bound exceeded the high event is set, if registered, and the round
\* sleeps interval_watching ("sleep"); below the low bound the low event is set, if
\* registered, and the cutoff follows ("cutoff") when a pin is configured.
BatteryCycle ==
    /\ battery.pc = "cycle"
    /\ LET b == Released(battery)
           voltage == ReadCall
           high == Greater(voltage, b.voltage_max)
           low == Less(voltage, b.voltage_min)
       IN  battery' =
              CASE high = "TypeError" -> [b EXCEPT !.pc = "dead"]
                [] high = "True" ->
                      IF b.event_high # "None"
                      THEN [b EXCEPT !.event_high = "set", !.data_high = voltage.value,
                                     !.pc = "sleep"]
                      ELSE [b EXCEPT !.pc = "sleep"]
                [] low = "TypeError" -> [b EXCEPT !.pc = "dead"]
                [] low = "True" ->
                      LET c == IF b.event_low # "None"
                               THEN [b EXCEPT !.event_low = "set",
                                              !.data_low = voltage.value]
                               ELSE b
                      IN  [c EXCEPT !.pc = IF b.cutoff_pin # "None" THEN "cutoff"
                                           ELSE "sleep"]
                [] OTHER -> [b EXCEPT !.pc = "sleep"]
    /\ UNCHANGED <<ctor, state, event, lock, network_done, subscribed, active, loop,
                   init, away, call, restore, last, during, echo>>

-----------------------------------------------------------------------------
(* The specifications *)

\* The modes lists of up to MaxModes names
ModeLists == UNION {[1..n -> ModeNames] : n \in 0..MaxModes}

\* The constructor called with each modes list, with every supported strategy
\* loadable or with "heat" failing to load
InitConstruct ==
    /\ InitClimate
    /\ battery = BatteryStart(42, 30, "None", 36)
    /\ \E modes \in ModeLists, loadable \in {MODES_SUPPORTED, {"off"}} :
          ctor = New(modes, loadable)

Construct ==
    /\ ctor.pc = "new"
    /\ ctor' = Constructed(ctor)
    /\ UNCHANGED <<battery, state, event, lock, network_done, subscribed, active, loop,
                   init, away, call, restore, last, during, echo>>

SpecConstruct == InitConstruct /\ [][Construct]_vars

\* The threshold monitor in each configuration, with consumers registering events
InitBattery ==
    /\ InitClimate
    /\ ctor = Constructed(New(<<"off", "heat">>, MODES_SUPPORTED))
    /\ \E vmax \in VoltagesMax, vmin \in VoltagesMin, pin \in CutoffPins, adc \in Samples :
          battery = BatteryStart(vmax, vmin, pin, adc)

NextBattery ==
    \/ \E e \in Events : registerEventHigh(e)
    \/ \E e \in Events : registerEventLow(e)
    \/ BatteryCycle

SpecBattery == InitBattery /\ [][NextBattery]_vars

\* The tasks the constructor and the framework start
Loop ==
    \/ LoopGuard
    \/ LoopWait
    \/ LoopRead
    \/ LoopTrigger
    \/ LoopPublish
    \/ LoopClear

Network ==
    \/ InitStart
    \/ InitPoll
    \/ InitUnsubscribe
    \/ InitPublish

\* Messages on the setpoint and away topics
SetpointCommands ==
    \/ \E msg \in HighInputs : changeTempHigh(msg)
    \/ \E msg \in LowInputs : changeTempLow(msg)

AwayCommands ==
    \/ \E msg \in Payloads : changeAwayMode(msg)
    \/ AwayLock

\* Messages on the mode topic and on the own state topic
ModeCommands ==
    \/ \E msg \in ModeInputs : changeMode(msg)
    \/ \E k \in Callers : ModeLock(k)
    \/ \E k \in Callers : ModeDeactivate(k)
    \/ \E k \in Callers : ModeActivate(k)

Recovery ==
    \/ \E msg \in Snapshots : RestoreDeliver(msg)
    \/ RestoreMerge
    \/ RestoreWake

\* _loop with the seconds of its guard counted
LoopCounted ==
    \/ LoopGuardCounted
    \/ LoopWait
    \/ LoopLock
    \/ LoopRead
    \/ LoopTrigger
    \/ LoopPublish
    \/ LoopClear

\* _init_network with the rounds of the recovery wait counted
NetworkCounted ==
    \/ InitStart
    \/ InitPollCounted
    \/ InitUnsubscribe
    \/ InitPublish

\* The changeMode call of _restore
RestoreCalls ==
    \/ ModeLock("restore")
    \/ ModeDeactivate("restore")
    \/ ModeActivate("restore")

\* The controller from its start through the recovery window, with a retained
\* snapshot arriving or not and no command
NextRecovery == LoopCounted \/ NetworkCounted \/ Recovery \/ RestoreCalls

SpecRecovery == Init /\ [][NextRecovery]_vars

\* The controller with setpoint and away commands arriving. No handler of these keeps
\* the lock over an await, so the loop never has to wait for it (LoopLock).
NextSetpoints == Loop \/ Network \/ SetpointCommands \/ AwayCommands

SpecSetpoints == Init /\ [][NextSetpoints]_vars

\* The controller with mode and away commands and a retained snapshot arriving
NextModes == Loop \/ LoopLock \/ Network \/ ModeCommands \/ Recovery \/ AwayCommands

SpecModes == Init /\ [][NextModes]_vars

\* The calls made under the lock return or raise in the end: the sensor read, the
\* strategy's trigger, deactivate and activate, and the publishes
LockedCallsEnd ==
    /\ WF_vars(LoopRead)
    /\ WF_vars(LoopTrigger)
    /\ WF_vars(LoopPublish)
    /\ \A k \in Callers : WF_vars(ModeDeactivate(k)) /\ WF_vars(ModeActivate(k))

\* Time passes and the scheduler runs every task: the 30 s of the first loop and
\* the interval of the inner wait end, the loop waiting for the lock gets it when it
\* is free again and again, and the steps of a pass without await follow
PassesRun ==
    /\ WF_vars(LoopGuard)
    /\ WF_vars(LoopGuard /\ loop'.pc # "guard")
    /\ WF_vars(LoopWait /\ loop'.pc # "wait")
    /\ SF_vars(LoopLock)
    /\ WF_vars(LoopClear)

\* The control loop with commands of each kind arriving once the topics are
\* subscribed: the high setpoint, away and mode
NextPass ==
    \/ Loop
    \/ LoopLock
    \/ InitStart
    \/ \E msg \in HighInputs : changeTempHigh(msg)
    \/ AwayCommands
    \/ ModeCommands

SpecPass == Init /\ [][NextPass]_vars /\ LockedCallsEnd /\ PassesRun

\* The control loop with the setpoints it publishes recorded, and setpoint and away
\* commands arriving once the topics are subscribed
LoopEchoed ==
    \/ LoopGuard
    \/ LoopWait
    \/ LoopRead
    \/ LoopTrigger
    \/ LoopPublishEchoed
    \/ LoopClearEchoed

NextEcho == LoopEchoed \/ InitStart \/ SetpointCommands \/ AwayCommands

SpecEcho == Init /\ [][NextEcho]_vars

\* The users of the lock: the control loop with mode and away commands arriving
\* once the topics are subscribed, and no retained snapshot
NextLock == Loop \/ LoopLock \/ InitStart \/ ModeCommands \/ AwayCommands

SpecLock == Init /\ [][NextLock]_vars /\ LockedCallsEnd

-----------------------------------------------------------------------------
(* The setpoints *)

\* C1: in every reachable state current_temp_low <= current_temp_high and both
\* current setpoints lie within [min_temp, max_temp].
C1_SetpointsOrderedInRange ==
    /\ state.current_temp_low <= state.current_temp_high
    /\ min_temp <= state.current_temp_low
    /\ state.current_temp_high <= max_temp

-----------------------------------------------------------------------------
(* The lock and the signal *)

C3_SignalSurvivesPass == (during /\ loop.pc = "wait") => event

-----------------------------------------------------------------------------
(* The mode *)

\* C4: in every reachable state current_mode is a key of the configured mode set,
\* also after a snapshot that names an unconfigured mode and after a failed
\* activation.
C4_ModeConfigured == state.current_mode \in Modes

\* The snapshot naming "cool" has been merged (only it sets the low setpoint to
\* 18 degC) and a later changeMode has fallen back to "off" after a failed activation
C4_Witness ==
    /\ state.storage_temp_low = 36
    /\ state.current_mode = MODE_OFF
    /\ last.fn = "changeMode"
    /\ last.wrote = "locked"
    /\ last.raised = "TypeError"

\* C5: when changeMode's deactivate succeeds and the target's activate fails, the
\* handler ends with current_mode = "off", the "off" strategy activated and the
\* signal set.
C5_FallbackToOff ==
    [][\A k \in Callers :
          (/\ call[k].pc = "activate"
           /\ call'[k].pc = "idle"
           /\ last'.wrote # "no"
           /\ state'.current_mode # call[k].msg)
          => (/\ state'.current_mode = MODE_OFF
              /\ MODE_OFF \in active'
              /\ event')]_vars

-----------------------------------------------------------------------------
(* Rejected commands and commands without effect *)

\* C6: changeTempHigh with a value above max_temp and changeTempLow with a value
\* below min_temp end with ValueError and leave the state record and the signal
\* as they were.
C6_OutOfRangeRejected ==
    [][\A msg \in HighInputs \cup LowInputs :
          (\/ msg > max_temp /\ changeTempHigh(msg)
           \/ msg < min_temp /\ changeTempLow(msg))
          => (/\ last'.raised = "ValueError"
              /\ state' = state
              /\ event' = event)]_vars

\* changeTempHigh has just rejected a value, with the signal not set
C6_Witness ==
    /\ last.fn = "changeTempHigh"
    /\ last.raised = "ValueError"
    /\ last.wrote = "no"
    /\ ~event

\* C7: changeMode with a mode that is not configured ends with AttributeError, and
\* changeAwayMode with a payload that is neither "on" nor "off" with TypeError; the
\* state record is unchanged, no strategy is deactivated or activated (no call of
\* one is started either) and the signal is not set.
C7_UnknownRejected ==
    [][/\ \A msg \in ModeInputs \ Modes :
             changeMode(msg)
             => (/\ last'.raised = "AttributeError"
                 /\ UNCHANGED <<state, event, active, lock, call>>)
       /\ \A msg \in Payloads \ (payload_on \cup payload_off) :
             changeAwayMode(msg)
             => (/\ last'.raised = "TypeError"
                 /\ UNCHANGED <<state, event, active, lock, away>>)]_vars

\* changeMode has just rejected a mode while "heat" is the current mode
C7_Witness ==
    /\ last.fn = "changeMode"
    /\ last.raised = "AttributeError"
    /\ state.current_mode = "heat"
    /\ ~event

\* C8: a changeAwayMode command that asks for the away state the controller is in
\* is a no-op, so that of two identical commands in a row only one sets the signal:
\* whenever a changeAwayMode call for the away state the controller is in returns or
\* leaves `async with self.lock`, no field of the state record has changed and the
\* signal is as it was.
C8_SameAwayStateNoOp ==
    [][\A msg \in payload_on \cup payload_off :
          (/\ state.away = Requested(msg)
           /\ \/ changeAwayMode(msg) /\ away' = away
              \/ away'[msg] < away[msg])
          => UNCHANGED <<state, event>>]_vars

\* The part of C8 that holds: a command arriving when the controller is in the
\* requested away state returns at once, without taking or queueing for the lock.
C8_ArrivingInStateReturns ==
    [][\A msg \in payload_on \cup payload_off :
          (changeAwayMode(msg) /\ state.away = Requested(msg))
          => UNCHANGED <<state, event, lock, away>>]_vars

\* An "on" command has just returned without effect: away is on, the signal is
\* not set
C8_ReturnedAtOnce ==
    /\ last = [fn |-> "changeAwayMode", wrote |-> "no", raised |-> "none"]
    /\ state.away = AWAY_ON
    /\ ~event

-----------------------------------------------------------------------------
(* Away mode and the setpoint pairs *)

Current(s) == <<s.current_temp_high, s.current_temp_low>>
Home(s) == <<s.storage_temp_high, s.storage_temp_low>>
AwayPair(s) == <<s.storage_away_temp_high, s.storage_away_temp_low>>
ActivePair(s) == IF s.away = AWAY_ON THEN AwayPair(s) ELSE Home(s)

\* C9: away mode is a round trip. No step into, within or out of away mode changes
\* the home pair, so setpoint commands issued while away change only the away pair;
\* no step taken or ending at home changes the away pair; and the current setpoints
\* are the home pair whenever away is off (the away pair whenever it is on), so
\* switching away off restores exactly the home setpoints of before.
C9_AwayRoundTrip ==
    [][/\ (state.away = AWAY_ON \/ state'.away = AWAY_ON) => Home(state') = Home(state)
       /\ (state.away = AWAY_OFF \/ state'.away = AWAY_OFF)
             => AwayPair(state') = AwayPair(state)
       /\ Current(state') = ActivePair(state')]_vars

\* Back home at 18 degC, the high setpoint set before, after a stay away during
\* which the high setpoint was set to 24 degC
C9_Witness ==
    /\ last.fn = "changeAwayMode"
    /\ last.wrote = "locked"
    /\ state.away = AWAY_OFF
    /\ state.storage_away_temp_high = 48
    /\ state.storage_temp_high = 36
    /\ state.current_temp_high = 36

\* The result claimed for the commands changeTempLow(l) and changeTempHigh(h)
BothApplied(s, l, h) ==
    /\ s.current_temp_low = l
    /\ s.current_temp_high = h
    /\ ActivePair(s) = <<h, l>>
    /\ s.current_temp_low <= s.current_temp_high

\* C10: for min_temp <= low <= high <= max_temp, changeTempLow(low) followed by
\* changeTempHigh(high), or the two in the other order, gives current_temp_low = low,
\* current_temp_high = high, the same pair in the active storage slot, and
\* current_temp_low <= current_temp_high. The first command is the step taken last,
\* so its value is the current one; the second is the step checked.
C10_SetpointPairApplied ==
    [][\A msg \in HighInputs \cup LowInputs :
          /\ (/\ last.fn = "changeTempLow" /\ last.wrote # "no"
              /\ min_temp <= state.current_temp_low
              /\ state.current_temp_low <= msg
              /\ msg <= max_temp
              /\ changeTempHigh(msg))
             => BothApplied(state', state.current_temp_low, msg)
          /\ (/\ last.fn = "changeTempHigh" /\ last.wrote # "no"
              /\ min_temp <= msg
              /\ msg <= state.current_temp_high
              /\ state.current_temp_high <= max_temp
              /\ changeTempLow(msg))
             => BothApplied(state', msg, state.current_temp_high)]_vars

\* Low 18 degC and high 24 degC have been applied while away, the high one last
C10_Witness ==
    /\ last.fn = "changeTempHigh"
    /\ last.wrote # "no"
    /\ state.away = AWAY_ON
    /\ state.current_temp_low = 36
    /\ state.current_temp_high = 48
    /\ AwayPair(state) = <<48, 36>>

-----------------------------------------------------------------------------
(* Recovery *)

\* The keys of a snapshot that _restore leaves in msg
CopiedFields ==
    {"current_temp_high", "current_temp_low", "away", "storage_away_temp_high",
     "storage_away_temp_low", "storage_temp_high", "storage_temp_low"}

\* C11: a retained snapshot whose mode is configured and activates is restored. The
\* step that merges the snapshot copies every field but current_mode and
\* current_action into the state and leaves current_action as it was; the step in
\* which the activate called for _restore succeeds leaves current_mode equal to the
\* snapshot's mode with that strategy activated, recovery marked complete and the
\* signal set; and the end of _restore leaves the signal set.
C11_SnapshotRestored ==
    [][/\ (restore.pc = "unsubscribe" /\ restore'.pc # "unsubscribe")
             => /\ \A f \in CopiedFields : state'[f] = restore.msg[f]
                /\ state'.current_action = state.current_action
       /\ (/\ call["restore"].pc = "activate"
           /\ call'["restore"].pc = "idle"
           /\ last'.raised = "none")
             => /\ state'.current_mode = call["restore"].msg
                /\ call["restore"].msg \in active'
                /\ network_done'
                /\ event'
                /\ restore'.pc = "sleep"
       /\ (restore.pc = "sleep" /\ restore'.pc = "idle") => event']_vars

\* _restore has ended after the snapshot with "heat" and 24 degC: the mode is
\* heat and activated, the high setpoint 24 degC, the action not the snapshot's
C11_Witness ==
    /\ last = [fn |-> "_restore", wrote |-> "no", raised |-> "none"]
    /\ restore.pc = "idle"
    /\ state.current_mode = "heat"
    /\ "heat" \in active
    /\ state.current_temp_high = 48
    /\ state.current_action = "off"
    /\ network_done
    /\ event

\* The state record is the constructor's, but for the action a pass has set
Defaults(s) == [s EXCEPT !.current_action = "off"] = InitialState

\* C12: with no snapshot delivered the recovery wait ends after 16 sleeps of 250 ms,
\* never more: _init_network then unsubscribes from the state topic, marks recovery
\* complete and leaves the state record at the constructor's defaults (current_mode
\* "off"), and it publishes the low and then the high setpoint.
C12_NoSnapshotDefaults ==
    [][/\ init'.n <= PollRounds
       /\ (/\ init.pc \in {"subscribed", "poll"}
           /\ init'.pc \notin {"subscribed", "poll"}
           /\ ~network_done)
             => init.n = PollRounds /\ init'.pc = "unsubscribe"
       /\ (/\ init.pc = "unsubscribe"
           /\ init'.pc # "unsubscribe"
           /\ subscribed
           /\ restore.pc = "idle")
             => /\ ~subscribed'
                /\ network_done'
                /\ Defaults(state')
                /\ state'.current_mode = MODE_OFF
                /\ init'.pc = "pub_low"
       /\ (init.pc = "pub_low" /\ init'.pc # "pub_low") => init'.pc = "pub_high"
       /\ init'.pc = "done" => network_done' /\ ~subscribed']_vars

\* _init_network has ended after the 16 rounds with the defaults in place
C12_Witness ==
    /\ init = [pc |-> "done", n |-> PollRounds]
    /\ state = InitialState
    /\ restore.pc = "idle"
    /\ network_done
    /\ ~subscribed

-----------------------------------------------------------------------------
(* Failures inside an evaluation pass *)

\* C13: an exception of the strategy's trigger does not end the loop. Whatever the
\* trigger call ends with, the pass goes on to _publishState with the lock held and
\* the state as the trigger left it; the last publish of a pass releases the lock;
\* and the step after it clears the signal and starts the next wait.
C13_TriggerErrorCaught ==
    [][/\ loop.pc = "trigger" => loop'.pc \in {"trigger", "pub_high"} /\ lock' = "loop"
       /\ last'.raised = "caught"
             => /\ loop.pc = "trigger"
                /\ loop'.pc = "pub_high"
                /\ state' = state
       /\ (loop.pc = "pub_state" /\ loop'.pc = "clear") => lock' = Free
       /\ (loop.pc = "clear" /\ loop'.pc # "clear")
             => ~event' /\ loop'.pc = "wait"]_vars

\* The trigger has just raised and the pass is about to publish with the lock held
C13_Witness ==
    /\ last = [fn |-> "_loop", wrote |-> "no", raised |-> "caught"]
    /\ loop.pc = "pub_high"
    /\ lock = "loop"

\* C14: a failure of the temperature read or of a state publish inside a pass does
\* not end the control loop, and the lock is not left held.
C14_LoopSurvivesFailure ==
    /\ loop.pc # "dead"
    /\ ~InPass => lock # "loop"

-----------------------------------------------------------------------------
(* Mode changes *)

\* C15: a changeMode call, from the mode topic or from _restore, that names the mode
\* that is current never deactivates or activates a strategy: no call is inside
\* deactivate or activate with the current mode as its target.
C15_CurrentModeNotReactivated ==
    \A k \in Callers :
        call[k].pc \in {"deactivate", "activate"} => call[k].msg # state.current_mode

\* The part of C15 that holds: a changeMode command arriving when its target is
\* the current mode returns at once, with no strategy called and nothing changed.
C15_ArrivingForCurrentModeReturns ==
    [][\A msg \in Modes :
          (changeMode(msg) /\ msg = state.current_mode)
          => /\ call'["mode"].pc = "idle"
             /\ UNCHANGED <<state, event, lock, active>>]_vars

-----------------------------------------------------------------------------
(* The threshold monitor *)

\* C16: with a high event registered, every sampling cycle releases the registered
\* events, then compares the new sample and goes on to the end of the cycle: the
\* cycle does not end the monitor, and if the high event is set after it, it was set
\* by that cycle, with a sample above voltage_max.
C16_ReleasedThenArmedOnce ==
    [][(battery.pc = "cycle" /\ battery'.pc # "cycle" /\ battery.event_high # "None")
          => /\ battery'.pc \in {"sleep", "cutoff"}
             /\ battery'.event_high = "set"
                   => battery'.data_high > battery.voltage_max]_vars

\* C23: a cycle with the sample below voltage_min and a cutoff pin configured goes
\* on to the cutoff, which drives the pin to 1, and does not leave the pin at 0 with
\* the monitor ended; a cycle with any other sample leaves the pin as it is.
C23_CutoffDriven ==
    [][(battery.pc = "cycle" /\ battery'.pc # "cycle")
          => /\ (battery.adc < battery.voltage_min /\ battery.cutoff_pin # "None")
                   => battery'.pc = "cutoff" \/ battery'.cutoff_pin = "1"
             /\ battery.adc >= battery.voltage_min
                   => battery'.cutoff_pin = battery.cutoff_pin]_vars

-----------------------------------------------------------------------------
(* The guard and the wait of the control loop *)

\* C17: the control loop is past its guard, in a pass or between passes, only when
\* recovery has been marked complete or 30 s have gone by since the loop started.
C17_NoPassBeforeRecovery ==
    loop.pc \notin {"start", "guard"} => (network_done \/ loop.t >= GuardSeconds)

\* A pass is reading the sensor with recovery not complete, 30 s after the start
C17_Witness ==
    /\ loop.pc = "read"
    /\ ~network_done
    /\ loop.t = GuardSeconds

\* C18: the control loop sleeps at least one second between the setting of the
\* signal and the pass it causes, also when the signal is set on entry to the wait:
\* a loop that enters its wait with the signal set goes to sleep, it does not start
\* a pass (by taking the lock or waiting for it) in the same step.
C18_SleepsBeforeSignalledPass ==
    [][(/\ loop.pc \in {"start", "guard"}
        /\ loop'.pc \notin {"start", "guard"}
        /\ event)
          => loop'.pc = "wait"]_vars

-----------------------------------------------------------------------------
(* The order of a mode change *)

\* deactivate and activate are called with the lock held by the calling task, and
\* activate only after the current strategy's deactivate has returned success
ActivateAfterDeactivate(k) ==
    /\ call[k].pc \in {"deactivate", "activate"} => lock = k
    /\ (call'[k].pc = "activate" /\ call[k].pc # "activate")
          => /\ call[k].pc = "deactivate"
             /\ state.current_mode \notin active'
             /\ lock' = k

\* When deactivate reports failure, or raises, the call ends with current_mode
\* unchanged, nothing activated, the signal not set and the lock released
DeactivateFailureLeavesMode(k) ==
    (call[k].pc = "deactivate" /\ call'[k].pc = "idle")
       => /\ UNCHANGED <<state, active, event>>
          /\ lock' = Free

\* C19, as claimed: activate is invoked only after a successful deactivate, both
\* under the lock; current_mode becomes the target only when the target's activate
\* has succeeded; and a failed deactivate changes nothing.
C19_SwitchOnlyAfterActivate ==
    [][\A k \in Callers :
          /\ ActivateAfterDeactivate(k)
          /\ DeactivateFailureLeavesMode(k)
          /\ (/\ call[k].pc = "activate"
              /\ state'.current_mode # state.current_mode
              /\ state'.current_mode = call[k].msg)
                => call[k].msg \in active']_vars

\* C19, amended: activate is invoked only after a successful deactivate, both under
\* the lock; a failed deactivate changes nothing; and current_mode changes only at
\* the end of an activate called under the lock, either to the target, whose
\* activate has succeeded, or to "off" by the fallback after a failed activate, which
\* for the target "off" makes the target current though its activate failed.
C19_SwitchAfterActivateOrFallback ==
    [][/\ \A k \in Callers : ActivateAfterDeactivate(k) /\ DeactivateFailureLeavesMode(k)
       /\ state'.current_mode # state.current_mode
             => \E k \in Callers :
                   /\ call[k].pc = "activate"
                   /\ call'[k].pc = "idle"
                   /\ lock = k
                   /\ \/ /\ state'.current_mode = call[k].msg
                         /\ call[k].msg \in active'
                         /\ event'
                      \/ /\ state'.current_mode = MODE_OFF
                         /\ call[k].msg \notin active']_vars

\* changeMode has switched to "heat" after heat's activate succeeded
C19_Witness ==
    /\ last = [fn |-> "changeMode", wrote |-> "locked", raised |-> "none"]
    /\ state.current_mode = "heat"
    /\ "heat" \in active
    /\ call["mode"].pc = "idle"
    /\ restore.pc = "idle"
    /\ state = [InitialState EXCEPT !.current_mode = "heat"]
    /\ lock = Free
    /\ event

-----------------------------------------------------------------------------
(* The configured modes *)

\* The names of a list
Range(list) == {list[i] : i \in 1..Len(list)}

\* C20: construction with any modes list succeeds and leaves in self._modes "off",
\* every listed name that is supported and can be loaded, and no unsupported name,
\* wherever the unsupported names stand in the list.
C20_ModesConfigured ==
    [][Construct
          => /\ ctor'.pc = "done"
             /\ "off" \in ctor'._modes
             /\ \A name \in Range(ctor.modes) :
                   /\ name \in MODES_SUPPORTED \cap ctor.loadable => name \in ctor'._modes
                   /\ name \notin MODES_SUPPORTED => name \notin ctor'._modes]_vars

-----------------------------------------------------------------------------
(* The lock *)

\* The tasks that are inside `async with self.lock`, suspended at an await
\* The handlers of the setpoint, away and mode commands
Commands == {"changeTempHigh", "changeTempLow", "changeAwayMode", "changeMode"}

\* The last step was a command handler writing self.state
Accepted == last.fn \in Commands /\ last.wrote # "no"

\* C22: with time passing, fair scheduling and sensor and publish calls that return
\* (the loop task is not ended by an exception), every setpoint, away or mode
\* command that writes self.state is followed by a pass of the loop that publishes
\* the state snapshot. The snapshot is self.state as it is at that publish, so it
\* holds every value written before and not overwritten.
C22_CommandPublished == Accepted ~> (last = Snapshot \/ loop.pc = "dead")

\* The snapshot of a pass that the interval started, the signal being clear, holds
\* the high setpoint of 24 degC that a command set before the pass, while away
C22_Witness ==
    /\ last = Snapshot
    /\ state.current_temp_high = 48
    /\ during = FALSE
    /\ event = FALSE
    /\ state.away = AWAY_ON

HighSlot(s) == IF s.away = AWAY_ON THEN "storage_away_temp_high" ELSE "storage_temp_high"
LowSlot(s) == IF s.away = AWAY_ON THEN "storage_away_temp_low" ELSE "storage_temp_low"

\* C25: an accepted changeTempHigh sets current_temp_high and the high storage slot
\* the away flag selects to the value and sets the signal, and leaves every other
\* field of the state record as it was: the other high slot, the low setpoints, the
\* away flag, current_mode and current_action. The same for changeTempLow with the
\* low fields.
C25_SetpointFrame ==
    [][\A msg \in HighInputs \cup LowInputs :
          /\ (msg <= max_temp /\ changeTempHigh(msg))
                => /\ state'.current_temp_high = msg
                   /\ state'[HighSlot(state)] = msg
                   /\ \A f \in DOMAIN state \ {"current_temp_high", HighSlot(state)} :
                         state'[f] = state[f]
                   /\ event'
          /\ (msg >= min_temp /\ changeTempLow(msg))
                => /\ state'.current_temp_low = msg
                   /\ state'[LowSlot(state)] = msg
                   /\ \A f \in DOMAIN state \ {"current_temp_low", LowSlot(state)} :
                         state'[f] = state[f]
                   /\ event']_vars

\* changeTempLow has set 18 degC while away, with the home slot still at its default
\* and the signal set
C25_Witness ==
    /\ last.fn = "changeTempLow"
    /\ last.wrote # "no"
    /\ state.away = AWAY_ON
    /\ state.current_temp_low = 36
    /\ state.storage_away_temp_low = 36
    /\ state.storage_temp_low = InitialState.storage_temp_low
    /\ event

InLock ==
    (IF InPass THEN {"loop"} ELSE {})
       \cup {k \in Callers : call[k].pc \in {"deactivate", "activate"}}

\* C21: at most one task is inside `async with self.lock` at a time, and it is the
\* one recorded as the holder; the lock is never left held by a task that has left
\* the block, by a return or by an exception of a strategy, the sensor or a
\* publish; and, with the calls made under the lock ending, a held lock always
\* becomes free again, so that no task waits for it forever.
C21_LockExclusiveAndReleased ==
    /\ [](InLock = IF lock = Free THEN {} ELSE {lock})
    /\ (lock # Free) ~> (lock = Free)

\* changeMode waits for the lock while the control loop holds it in a pass
C21_Witness ==
    /\ call["mode"].pc = "lock"
    /\ lock = "loop"
    /\ loop.pc = "trigger"

====
